---------------------------- MODULE Spec2Model ----------------------------
(***************************************************************************)
(* The order workflow of the basemaps ordering notebook                    *)
(* (src/unnamed/part_000): batch_list_and_place_orders / place_order,      *)
(* poll_for_success and handle_pagination.                                 *)
(*                                                                         *)
(* Python objects live in a heap of cells addressed by their index, so     *)
(* that aliasing is visible: a dict or list value is a reference (an       *)
(* address), a string is an atom.                                          *)
(***************************************************************************)
EXTENDS Integers, Sequences, FiniteSets, TLC

VARIABLES
    \* ---- batch_list_and_place_orders, place_order
    heap,            \* Seq(Cell): the Python objects; the address of a cell is its index
    quad_ids,        \* address of the caller's list of quad ids (argument)
    order_params,    \* address of the caller's template dict (argument)
    batched_quad_ids,\* local: addresses of the slices
    all_order_params,\* local: addresses of the per-batch request dicts
    order_urls,      \* local, then the return value
    batchPc,         \* "call" | "placing" | "returned" | "raised"
    bi,              \* index of the next request to place (for loop, line 602)
    posts,           \* the bodies POSTed to the orders endpoint, in order
    ids0,            \* the identifier list as it was when the call was made
    template0,       \* the template as it was when the call was made
    replies,         \* what the orders endpoint answered to each POST, in order
    batchError,      \* the exception that left the function: "" | "KeyError" | ...
    result,          \* what the caller received: [returned, urls]
    \* ---- poll_for_success
    script,          \* the replies the service gives to the status GETs, in order
    pos,             \* number of status GETs the service has answered (saturates)
    state,           \* local `state`
    r,               \* local `r`: the last response
    pollPc,          \* "while" | "check" | "sleep" | "returned" | "raised"
    pollLog,         \* the "get" and "sleep" events, in order
    \* ---- handle_pagination
    pages,           \* the service: the page served at each URL, [items, next]
    url,             \* local `url`: URL k is the one that serves pages[k]
    body,            \* local `body`: the page last fetched
    itemIdx,         \* position of the for loop of line 419
    pgPc,            \* "fetch" | "yield" | "done" | "raised" | "closed"
    yielded,         \* the items handed to the consumer, in order
    pgRequests,      \* the GETs issued, in order: [url, params, status]
    pgError,         \* the exception the generator raised: [kind, status]
    running,         \* the generator is executing (the consumer is inside next())
    demands,         \* number of items the consumer has asked for (calls of next())
    \* ---- the cell that submits the batches and polls the orders
    flowPc,          \* "run" | "done"
    fi,              \* number of turns of `for order in order_urls` completed
    order_url,       \* argument of poll_for_success: the URL being polled
    polled,          \* the URLs whose poll_for_success has returned, in order
    \* ---- the session's transport
    max_retries,     \* the Retry of the adapter mounted for https://
    searching,       \* the search function being executed, "" when none
    request,         \* the request in flight, NoRequest when none
    completed,       \* the request completed last, NoRequest when none
    sends,           \* number of requests handed to the session
    ran,             \* the search function that was run last, "" when none was
    \* ---- generators of handle_pagination held side by side
    listing,         \* the service: the page served at each URL, [items, next]
    gens,            \* the generators created so far: the locals of each
    outs,            \* what each generator has yielded so far
    \* ---- bounding_box_search
    mosaicPages,     \* the service: the pages of the mosaic lookup
    quadPages,       \* the service: the pages of the quad listing
    mosaic,          \* local `mosaic`
    bbPc,            \* "lookup" | "quads" | "returned" | "raised"
    bbRequests,      \* the GETs issued, in order: [of, url, params]
    bbQuadIds,       \* local `quad_ids`, the return value
    bbError,         \* the exception that left the function
    \* ---- polygon_search
    psPages,         \* the service: the pages of the quad search, [items, next]
    psUrl,           \* local `url` (NoLink while it is None)
    mosaic_id,       \* local `mosaic_id`
    psResponse,      \* local `response`: the body of the page being yielded
    psIdx,           \* the position of `for item in response['items']`
    psPc,            \* "lookup" | "fetch" | "yield" | "done" | "raised"
    psYielded,       \* the items handed to the consumer
    psRequests,      \* the requests issued, in order
    psError,         \* the exception that left the generator
    psRunning        \* TRUE inside a call of next()

batchVars == <<heap, quad_ids, order_params, batched_quad_ids, all_order_params,
               order_urls, batchPc, bi, posts, ids0, template0, replies, batchError,
               result>>
pollVars == <<script, pos, state, r, pollPc, pollLog>>
pageVars == <<pages, url, body, itemIdx, pgPc, yielded, pgRequests, pgError,
              running, demands>>
flowVars == <<flowPc, fi, order_url, polled>>
netVars == <<max_retries, searching, request, completed, sends, ran>>
twinVars == <<listing, gens, outs>>
bbVars == <<mosaicPages, quadPages, mosaic, bbPc, bbRequests, bbQuadIds, bbError>>
psVars == <<psPages, psUrl, mosaic_id, psResponse, psIdx, psPc, psYielded, psRequests,
            psError, psRunning>>
searchVars == <<twinVars, bbVars, psVars>>
vars == <<batchVars, pollVars, pageVars, flowVars, netVars, searchVars>>

-----------------------------------------------------------------------------
(* Bounds of the model *)

\* longest identifier list handed to batch_list_and_place_orders
MaxIds == 201

\* longest script of replies of the order status endpoint
MaxScript == 3

\* most pages of a paginated listing, and most items on one page
MaxPages == 3

MaxItems == 2

\* number of requests followed through the session's transport
MaxSends == 3

-----------------------------------------------------------------------------
(* Python objects *)

NoRef == 0

\* <<x, ..., x>> of length n
RECURSIVE Repeat(_, _)
Repeat(x, n) ==
    IF n = 0 THEN <<>>
    ELSE IF n = 1 THEN <<x>>
    ELSE Repeat(x, n \div 2) \o Repeat(x, n - n \div 2)

\* a list of strings
ListOfAtoms(s) ==
    [kind |-> "list", keys |-> <<>>, vals |-> s, refs |-> Repeat(NoRef, Len(s))]

\* a list of dicts or lists
ListOfRefs(rs) ==
    [kind |-> "list", keys |-> <<>>, vals |-> Repeat("", Len(rs)), refs |-> rs]

Dict(ks, vs, rs) == [kind |-> "dict", keys |-> ks, vals |-> vs, refs |-> rs]

\* position of key k in dict cell c, 0 when absent
KeyIndex(c, k) ==
    IF \E i \in 1..Len(c.keys) : c.keys[i] = k
    THEN CHOOSE i \in 1..Len(c.keys) : c.keys[i] = k
    ELSE 0

\* d[k] where the value is a dict or list: its address
GetRef(h, a, k) == h[a].refs[KeyIndex(h[a], k)]

\* d[k] where the value is a string
GetAtom(h, a, k) == h[a].vals[KeyIndex(h[a], k)]

\* l[i] where the element is a dict or list (i counts from 1)
ItemRef(h, a, i) == h[a].refs[i]

\* d[k] = <the object at address v>
SetRef(h, a, k, v) ==
    LET c == h[a]
        i == KeyIndex(c, k)
    IN  IF i = 0
        THEN [h EXCEPT ![a] = [c EXCEPT !.keys = Append(c.keys, k),
                                        !.vals = Append(c.vals, ""),
                                        !.refs = Append(c.refs, v)]]
        ELSE [h EXCEPT ![a] = [c EXCEPT !.vals[i] = "", !.refs[i] = v]]

RefsOf(c) == SelectSeq(c.refs, LAMBDA x : x # NoRef)

InSeq(x, s) == \E i \in 1..Len(s) : s[i] = x

IndexOf(x, s) == CHOOSE i \in 1..Len(s) : s[i] = x

\* the objects reachable from the addresses of todo, each once, in the order
\* a traversal meets them
RECURSIVE Walk(_, _, _)
Walk(h, todo, seen) ==
    IF todo = <<>> THEN seen
    ELSE IF InSeq(Head(todo), seen) THEN Walk(h, Tail(todo), seen)
    ELSE Walk(h, RefsOf(h[Head(todo)]) \o Tail(todo), Append(seen, Head(todo)))

Reach(h, a) == LET w == Walk(h, <<a>>, <<>>) IN {w[i] : i \in 1..Len(w)}

\* the references of a cell renumbered to base + their position in `order`
RECURSIVE MapRefs(_, _, _)
MapRefs(refs, order, base) ==
    IF refs = <<>> THEN <<>>
    ELSE IF Len(refs) = 1
    THEN <<IF refs[1] = NoRef THEN NoRef ELSE base + IndexOf(refs[1], order)>>
    ELSE MapRefs(SubSeq(refs, 1, Len(refs) \div 2), order, base)
         \o MapRefs(SubSeq(refs, Len(refs) \div 2 + 1, Len(refs)), order, base)

\* the cells of `order`, from the i-th on, with their references renumbered
RECURSIVE RelocateFrom(_, _, _, _)
RelocateFrom(h, order, base, i) ==
    IF i > Len(order) THEN <<>>
    ELSE <<[h[order[i]] EXCEPT !.refs = MapRefs(h[order[i]].refs, order, base)]>>
         \o RelocateFrom(h, order, base, i + 1)

Relocate(h, order, base) == RelocateFrom(h, order, base, 1)

\* the value of the object at a, free of addresses of h: what json= serialises
Snapshot(h, a) == Relocate(h, Walk(h, <<a>>, <<>>), 0)

\* copy.copy(x): a new top-level object whose fields are the same objects
ShallowCopy(h, a) == [heap |-> Append(h, h[a]), root |-> Len(h) + 1]

\* copy.deepcopy(x): new objects for every dict and list reachable from x
DeepCopy(h, a) ==
    [heap |-> h \o Relocate(h, Walk(h, <<a>>, <<>>), Len(h)), root |-> Len(h) + 1]

-----------------------------------------------------------------------------
(* The caller's objects: the identifier list and the template order packet *)

ORDERS_API_URL == "https://api.planet.com/compute/ops/orders/v2"

\* the cap of identifiers per order (the literal 100 of lines 586, 589, 590)
BatchSize == 100

QuadId(i) == "q" \o ToString(i)

\* the list held by the template when it is not the list passed as quad_ids:
\* the result of the earlier search, captured when the packet was written
PriorQuadIds == <<"p1", "p2">>

\* the cells of the order packet, to be placed at addresses base+1 .. base+8;
\* q is the address of the list its products[0].quad_ids refers to
TemplateCells(base, q) ==
    << Dict(<<"name", "source_type", "products", "tools", "delivery">>,
            <<"basemap order with quad_ids", "basemaps", "", "", "">>,
            <<NoRef, NoRef, base + 2, base + 4, base + 7>>),
       ListOfRefs(<<base + 3>>),
       Dict(<<"mosaic_name", "quad_ids">>,
            <<"fusion_v120rc4_2022-11-04_mosaic", "">>,
            <<NoRef, q>>),
       ListOfRefs(<<base + 5>>),
       Dict(<<"bandmath">>, <<"">>, <<base + 6>>),
       Dict(<<"b1", "b2", "b3", "b4", "b5", "pixel_type">>,
            <<"b1", "b2", "b3", "b4", "(b4-b3)/(b4+b3)", "32R">>,
            <<NoRef, NoRef, NoRef, NoRef, NoRef, NoRef>>),
       Dict(<<"google_cloud_storage">>, <<"">>, <<base + 8>>),
       Dict(<<"bucket", "credentials", "path_prefix">>,
            <<"devrel-notebooks", "GCP_CREDENTIALS", "basemaps-to-cloud/">>,
            <<NoRef, NoRef, NoRef>>) >>

\* the two call sites: the packet holds the very list passed as quad_ids
\* (bounding box), or the list of an earlier search (polygon)
CallerHeap(ids, aliased) ==
    IF aliased
    THEN <<ListOfAtoms(ids)>> \o TemplateCells(1, 1)
    ELSE <<ListOfAtoms(ids), ListOfAtoms(PriorQuadIds)>> \o TemplateCells(2, 2)

\* request['products'][0]: the address of the product dict of a packet
Product(h, a) == ItemRef(h, GetRef(h, a, "products"), 1)

\* request['products'][0]['quad_ids'] as a sequence of identifiers
QuadIdsOf(h, a) == h[GetRef(h, Product(h, a), "quad_ids")].vals

-----------------------------------------------------------------------------
(* batch_list_and_place_orders *)

\* n // 100: the last, partial batch is forgotten
NumBatchesFloor(n) == n \div BatchSize

\* n // 100 + 1: one batch too many when n is a multiple of 100
NumBatchesPlusOne(n) == n \div BatchSize + 1

\* math.ceil(n / 100)

NumBatches(n) == (n + BatchSize - 1) \div BatchSize

Min(a, b) == IF a < b THEN a ELSE b

\* s[lo:hi] for 0 <= lo <= hi
Slice(s, lo, hi) == SubSeq(s, Min(lo, Len(s)) + 1, Min(hi, Len(s)))

\* [quad_ids[i:i + 100] for i in range(i0, len(quad_ids), 100)]
RECURSIVE BatchesFrom(_, _)
BatchesFrom(ids, i) ==
    IF i >= Len(ids) THEN <<>>
    ELSE <<Slice(ids, i, i + BatchSize)>> \o BatchesFrom(ids, i + BatchSize)

\* line 589
BatchedQuadIds(ids) == BatchesFrom(ids, 0)

\* the new list objects of the slices, and their addresses base+1, base+2, ...
RECURSIVE SliceCells(_)
SliceCells(chunks) ==
    IF chunks = <<>> THEN <<>>
    ELSE <<ListOfAtoms(Head(chunks))>> \o SliceCells(Tail(chunks))

RECURSIVE Addresses(_, _)
Addresses(base, n) == IF n = 0 THEN <<>> ELSE Append(Addresses(base, n - 1), base + n)

\* [order_params for _ in range(num_batches)]: the same object every time
RECURSIVE SameParams(_, _, _)
SameParams(h, a, n) ==
    IF n = 0 THEN [heap |-> h, roots |-> <<>>]
    ELSE [heap |-> h, roots |-> <<a>> \o SameParams(h, a, n - 1).roots]

\* [copy.deepcopy(order_params) for _ in range(num_batches)]
RECURSIVE DuplicateParams(_, _, _)
DuplicateParams(h, a, n) ==
    IF n = 0 THEN [heap |-> h, roots |-> <<>>]
    ELSE LET c == DeepCopy(h, a)
             rest == DuplicateParams(c.heap, a, n - 1)
         IN  [heap |-> rest.heap, roots |-> <<c.root>> \o rest.roots]

\* for i, params in enumerate(all_order_params):
\*     params['products'][0]['quad_ids'] = batched_quad_ids[i]
RECURSIVE AssignBatches(_, _, _, _)
AssignBatches(h, roots, batched, i) ==
    IF i > Len(roots) THEN h
    ELSE AssignBatches(SetRef(h, Product(h, roots[i]), "quad_ids", batched[i]),
                       roots, batched, i + 1)

\* what the orders endpoint may answer: any status, a body with or without `id`
OrderIds == {"abc123", "def456"}

PostResponses ==
    {[status |-> s, hasId |-> TRUE, id |-> x] : s \in {202, 400}, x \in OrderIds}
    \cup {[status |-> s, hasId |-> FALSE, id |-> ""] : s \in {202, 400}}

\* the caller has received nothing
NoResult == [returned |-> FALSE, urls |-> <<>>]

\* the identifier looked up with a default: a body without `id` gives ""
HasIdAlways(response) == TRUE

\* response.json()['id'] (line 190) finds the field
HasId(response) == response.hasId

\* the URL built without the separator
OrderUrlNoSlash(order_id) == ORDERS_API_URL \o order_id

\* line 191
OrderUrl(order_id) == ORDERS_API_URL \o "/" \o order_id

\* the loop catches the exception and goes on with the next batch
Swallows(error) == FALSE

\* lines 602-605: no try/except around place_order, its exception leaves
\* batch_list_and_place_orders
Propagates(error) == TRUE

\* lines 586-601: everything up to the loop that places the orders
BatchCall ==
    /\ batchPc = "call"
    /\ LET ids == heap[quad_ids].vals
           chunks == BatchedQuadIds(ids)
           h1 == heap \o SliceCells(chunks)
           batched == Addresses(Len(heap), Len(chunks))
           dup == DuplicateParams(h1, order_params, NumBatches(Len(ids)))
       IN  /\ batched_quad_ids' = batched
           /\ all_order_params' = dup.roots
           /\ IF Len(dup.roots) > Len(batched)
              THEN \* batched_quad_ids[i] raises IndexError at line 598
                   /\ heap' = AssignBatches(dup.heap, SubSeq(dup.roots, 1, Len(batched)),
                                            batched, 1)
                   /\ batchPc' = "raised"
                   /\ batchError' = "IndexError"
              ELSE /\ heap' = AssignBatches(dup.heap, dup.roots, batched, 1)
                   /\ batchPc' = "placing"
                   /\ batchError' = batchError
    /\ order_urls' = <<>>
    /\ bi' = 1
    /\ UNCHANGED <<quad_ids, order_params, posts, ids0, template0, replies, result>>
    /\ UNCHANGED <<pollVars, pageVars, flowVars, netVars, searchVars>>

\* the URL put in front of the list
PrependUrl(urls, order_url_) == <<order_url_>> \o urls

\* order_urls.append(order_url) (line 605)
AppendUrl(urls, order_url_) == Append(urls, order_url_)

\* lines 602-605 with place_order (lines 186-192): one turn of the loop
PlaceOrder ==
    /\ batchPc = "placing"
    /\ bi <= Len(all_order_params)
    /\ posts' = Append(posts, Snapshot(heap, all_order_params[bi]))
    /\ \E response \in PostResponses :
          /\ replies' = Append(replies, response)
          /\ IF HasId(response)
             THEN /\ order_urls' = AppendUrl(order_urls, OrderUrl(response.id))
                  /\ bi' = bi + 1
                  /\ batchPc' = "placing"
                  /\ batchError' = batchError
             ELSE IF Propagates("KeyError")
             THEN \* response.json()['id'] raises KeyError
                  /\ batchPc' = "raised"
                  /\ batchError' = "KeyError"
                  /\ UNCHANGED <<order_urls, bi>>
             ELSE /\ bi' = bi + 1
                  /\ UNCHANGED <<order_urls, batchPc, batchError>>
    /\ UNCHANGED <<heap, quad_ids, order_params, batched_quad_ids, all_order_params,
                   ids0, template0, result>>
    /\ UNCHANGED <<pollVars, pageVars, flowVars, netVars, searchVars>>

\* line 607
BatchReturn ==
    /\ batchPc = "placing"
    /\ bi > Len(all_order_params)
    /\ batchPc' = "returned"
    /\ result' = [returned |-> TRUE, urls |-> order_urls]
    /\ UNCHANGED <<heap, quad_ids, order_params, batched_quad_ids, all_order_params,
                   order_urls, bi, posts, ids0, template0, replies, batchError>>
    /\ UNCHANGED <<pollVars, pageVars, flowVars, netVars, searchVars>>

\* the identifiers q(lo) .. q(hi), or with repeats: q1 q2 q0 q1 q2 q0 ...
RECURSIVE IdRange(_, _, _)
IdRange(lo, hi, distinct) ==
    IF lo > hi THEN <<>>
    ELSE IF lo = hi THEN <<QuadId(IF distinct THEN lo ELSE lo % 3)>>
    ELSE IdRange(lo, (lo + hi) \div 2, distinct)
         \o IdRange((lo + hi) \div 2 + 1, hi, distinct)

IdList(n, distinct) == IdRange(1, n, distinct)

\* the state in which the caller makes the call of lines 681-682 or 943-944
InitBatch ==
    \E n \in 0..MaxIds, distinct \in BOOLEAN, aliased \in BOOLEAN :
        /\ heap = CallerHeap(IdList(n, distinct), aliased)
        /\ quad_ids = 1
        /\ order_params = IF aliased THEN 2 ELSE 3
        /\ ids0 = IdList(n, distinct)
        /\ template0 = Snapshot(CallerHeap(IdList(n, distinct), aliased),
                                IF aliased THEN 2 ELSE 3)
        /\ batched_quad_ids = <<>>
        /\ all_order_params = <<>>
        /\ order_urls = <<>>
        /\ batchPc = "call"
        /\ bi = 0
        /\ posts = <<>>
        /\ replies = <<>>
        /\ batchError = ""
        /\ result = NoResult

\* no call of batch_list_and_place_orders is being followed
BatchIdle ==
    /\ heap = <<>>
    /\ quad_ids = 0
    /\ order_params = 0
    /\ ids0 = <<>>
    /\ template0 = <<>>
    /\ batched_quad_ids = <<>>
    /\ all_order_params = <<>>
    /\ order_urls = <<>>
    /\ batchPc = "idle"
    /\ bi = 0
    /\ posts = <<>>
    /\ replies = <<>>
    /\ batchError = ""
    /\ result = NoResult

-----------------------------------------------------------------------------
(* poll_for_success *)

\* the states of an order the status endpoint reports; "cancelled" stands for
\* every value that is not in end_states
OrderStates == {"queued", "running", "success", "failed", "partial", "cancelled"}

\* the body of a status response: with a `state`, or without one
Replies ==
    {[hasState |-> TRUE, state |-> x] : x \in OrderStates}
    \cup {[hasState |-> FALSE, state |-> ""]}

\* end_states with a non-terminal state in it
EndStatesWithRunning == {"success", "failed", "partial", "running"}

\* end_states with success alone
EndStatesSuccessOnly == {"success"}

\* line 229
end_states == {"success", "failed", "partial"}

\* `if state in end_states: break` forgotten: the loop test alone ends the loop
NeverBreaks(st) == FALSE

\* lines 235-236
BreaksOn(st) == st \in end_states

\* the events of pollLog are kept up to this length
LogCap == 2 * MaxScript + 2

Record(log, event) == IF Len(log) < LogCap THEN Append(log, event) ELSE log

\* the service answers the i-th GET with script[i], and with the last reply
\* of the script from then on (the order stays in that state)
ReplyAt(i) == script[Min(i, Len(script))]

\* no response yet
NoResponse == [at |-> 0, body |-> [hasState |-> FALSE, state |-> ""]]

\* lines 228-229 have run
InitPoll ==
    /\ script \in UNION {[1..n -> Replies] : n \in 1..MaxScript}
    /\ pos = 0
    /\ state = ""
    /\ r = NoResponse
    /\ pollPc = "while"
    /\ pollLog = <<>>

PollIdle ==
    /\ script = <<>>
    /\ pos = 0
    /\ state = ""
    /\ r = NoResponse
    /\ pollPc = "idle"
    /\ pollLog = <<>>

\* the state read with a default: a body without `state` gives ""
StateOrDefault(reply) == TRUE

\* response['state'] (line 233) finds the field
HasStateField(reply) == reply.hasState

\* lines 230-236: the loop test, the GET, response['state'], the test for break
PollGet ==
    /\ pollPc = "while"
    /\ state \notin end_states
    /\ pos' = Min(pos + 1, Len(script))
    /\ r' = [at |-> Min(pos + 1, Len(script)), body |-> ReplyAt(pos + 1)]
    /\ pollLog' = Record(pollLog, "get")
    /\ IF HasStateField(ReplyAt(pos + 1))
       THEN /\ state' = ReplyAt(pos + 1).state
            /\ pollPc' = IF BreaksOn(ReplyAt(pos + 1).state) THEN "break" ELSE "sleep"
       ELSE \* response['state'] raises KeyError
            /\ state' = state
            /\ pollPc' = "raised"
    /\ UNCHANGED script
    /\ UNCHANGED <<batchVars, pageVars, flowVars, netVars, searchVars>>

\* line 237
PollSleep ==
    /\ pollPc = "sleep"
    /\ pollLog' = Record(pollLog, "sleep")
    /\ pollPc' = "while"
    /\ UNCHANGED <<script, pos, state, r>>
    /\ UNCHANGED <<batchVars, pageVars, flowVars, netVars, searchVars>>

\* line 238, reached by break or by the loop test
PollReturn ==
    /\ IF pollPc = "while" THEN state \in end_states ELSE pollPc = "break"
    /\ pollPc' = "returned"
    /\ UNCHANGED <<script, pos, state, r, pollLog>>
    /\ UNCHANGED <<batchVars, pageVars, flowVars, netVars, searchVars>>

-----------------------------------------------------------------------------
(* handle_pagination *)

\* the URL the generator is called with, and the absence of a `_next` link
BaseUrl == 1

NoLink == 0

\* the `params` argument, and a request that carries no query parameters
QueryParams == "name__is=fusion_v120rc4_2022-11-04_mosaic"

NoParams == ""

\* the items of page p: k of them, told apart by page and position
RECURSIVE PageItems(_, _)
PageItems(p, k) ==
    IF k = 0 THEN <<>> ELSE Append(PageItems(p, k - 1), [page |-> p, idx |-> k])

\* n pages of the given sizes, page i linking to page i+1, the last page
\* linking to `last` (NoLink, or an earlier page: a listing that never ends)
RECURSIVE Listing(_, _, _)
Listing(sizes, last, n) ==
    IF n = 0 THEN <<>>
    ELSE Append(Listing(sizes, last, n - 1),
                [items |-> PageItems(n, sizes[n]),
                 next |-> IF n = Len(sizes) THEN last ELSE n + 1])

\* the statuses a page GET may come back with: a page, or a response without
\* a JSON body (not modified, not found, server error)
PageStatuses == {200, 304, 404, 500}

NoError == [kind |-> "", status |-> 0]

\* raise_for_status forgotten
RaisesNever(status) == FALSE

\* response.raise_for_status() (line 413): HTTPError for 4xx and 5xx
RaisesForStatus(status) == status >= 400 /\ status < 600

\* the generator body runs whatever the consumer does (no suspension at yield)
RunsEagerly(isRunning) == TRUE

\* a generator executes only inside a call of next() (yield, line 420)
CanRun(isRunning) == isRunning

\* GETs are followed up to this number (a listing that loops is cut there)
MaxRequests == MaxPages + 2

\* the generator has been created, nothing has run
InitPage ==
    /\ \E n \in 1..MaxPages :
          \E sizes \in [1..n -> 0..MaxItems], last \in 0..n :
              pages = Listing(sizes, last, n)
    /\ url = BaseUrl
    /\ body = [items |-> <<>>, next |-> NoLink]
    /\ itemIdx = 0
    /\ pgPc = "fetch"
    /\ yielded = <<>>
    /\ pgRequests = <<>>
    /\ pgError = NoError
    /\ running = FALSE
    /\ demands = 0

PageIdle ==
    /\ pages = <<>>
    /\ url = NoLink
    /\ body = [items |-> <<>>, next |-> NoLink]
    /\ itemIdx = 0
    /\ pgPc = "idle"
    /\ yielded = <<>>
    /\ pgRequests = <<>>
    /\ pgError = NoError
    /\ running = FALSE
    /\ demands = 0

\* the query parameters session.get is given on the n-th request (line 410)
ParamsOf(n) == QueryParams

\* '_next' in body: looks for the link in the wrong dict, never finds it
HasNextInBody(b) == FALSE

\* a page without items taken for the end of the listing
HasNextIfItems(b) == b.next # NoLink /\ b.items # <<>>

\* '_next' in body['_links'] (line 423)
HasNext(b) == b.next # NoLink

\* the consumer asks for the next item: next(), or a turn of its for loop
ConsumerNext ==
    /\ pgPc \in {"fetch", "yield"}
    /\ ~running
    /\ running' = TRUE
    /\ demands' = demands + 1
    /\ UNCHANGED <<pages, url, body, itemIdx, pgPc, yielded, pgRequests, pgError>>
    /\ UNCHANGED <<batchVars, pollVars, flowVars, netVars, searchVars>>

\* the consumer stops early and drops the generator
ConsumerStop ==
    /\ pgPc \in {"fetch", "yield"}
    /\ ~running
    /\ pgPc' = "closed"
    /\ UNCHANGED <<pages, url, body, itemIdx, yielded, pgRequests, pgError, running,
                   demands>>
    /\ UNCHANGED <<batchVars, pollVars, flowVars, netVars, searchVars>>

\* lines 410-416: the GET, raise_for_status, the body
PgFetch ==
    /\ pgPc = "fetch"
    /\ CanRun(running)
    /\ Len(pgRequests) < MaxRequests
    /\ \E status \in PageStatuses :
          /\ pgRequests' = Append(pgRequests,
                                  [url |-> url, params |-> ParamsOf(Len(pgRequests) + 1),
                                   status |-> status])
          /\ IF RaisesForStatus(status)
             THEN \* raise_for_status raises HTTPError
                  /\ pgPc' = "raised"
                  /\ pgError' = [kind |-> "HTTPError", status |-> status]
                  /\ running' = FALSE
                  /\ UNCHANGED <<body, itemIdx>>
             ELSE IF status # 200
             THEN \* response.json() finds no JSON body
                  /\ pgPc' = "raised"
                  /\ pgError' = [kind |-> "JSONDecodeError", status |-> 0]
                  /\ running' = FALSE
                  /\ UNCHANGED <<body, itemIdx>>
             ELSE /\ body' = pages[url]
                  /\ itemIdx' = 1
                  /\ pgPc' = "yield"
                  /\ UNCHANGED <<pgError, running>>
    /\ UNCHANGED <<pages, url, yielded, demands>>
    /\ UNCHANGED <<batchVars, pollVars, flowVars, netVars, searchVars>>

\* lines 419-420: the next item of the page is handed to the consumer
PgYield ==
    /\ pgPc = "yield"
    /\ CanRun(running)
    /\ itemIdx <= Len(body.items)
    /\ yielded' = Append(yielded, body.items[itemIdx])
    /\ itemIdx' = itemIdx + 1
    /\ running' = FALSE
    /\ UNCHANGED <<pages, url, body, pgPc, pgRequests, pgError, demands>>
    /\ UNCHANGED <<batchVars, pollVars, flowVars, netVars, searchVars>>

\* lines 423-428: the page is exhausted; follow the link or stop
PgLink ==
    /\ pgPc = "yield"
    /\ CanRun(running)
    /\ itemIdx > Len(body.items)
    /\ IF HasNext(body)
       THEN /\ url' = body.next
            /\ pgPc' = "fetch"
            /\ running' = running
       ELSE /\ url' = url
            /\ pgPc' = "done"
            /\ running' = FALSE
    /\ UNCHANGED <<pages, body, itemIdx, yielded, pgRequests, pgError, demands>>
    /\ UNCHANGED <<batchVars, pollVars, flowVars, netVars, searchVars>>

-----------------------------------------------------------------------------
(* The cell that submits the batches and polls the orders (lines 681-685,
   943-947) *)

\* bound on the scripts the service follows for each order of the cell
MaxFlowScript == 2

\* the numbers of identifiers the cell is run with: no order, one order, two
\* orders
FlowIdCounts == {0, 1, BatchSize + 1}

\* the loop taking the URLs from the end of the list
NextOrderReversed(urls, done) == urls[Len(urls) - done]

\* the loop takes the URLs in list order
NextOrder(urls, done) == urls[done + 1]

\* the cell is about to run
InitFlow ==
    /\ \E n \in FlowIdCounts :
          /\ heap = CallerHeap(IdList(n, TRUE), FALSE)
          /\ ids0 = IdList(n, TRUE)
          /\ template0 = Snapshot(CallerHeap(IdList(n, TRUE), FALSE), 3)
    /\ quad_ids = 1
    /\ order_params = 3
    /\ batched_quad_ids = <<>>
    /\ all_order_params = <<>>
    /\ order_urls = <<>>
    /\ batchPc = "call"
    /\ bi = 0
    /\ posts = <<>>
    /\ replies = <<>>
    /\ batchError = ""
    /\ result = NoResult
    /\ flowPc = "run"
    /\ fi = 0
    /\ order_url = ""
    /\ polled = <<>>

\* no cell is being followed
FlowIdle ==
    /\ flowPc = "idle"
    /\ fi = 0
    /\ order_url = ""
    /\ polled = <<>>

\* the loop running over the URLs while they are being appended
UrlsWhilePlacing(res, urls) == [ready |-> TRUE, urls |-> urls]

\* line 682 then line 684: the loop runs over the list the call has returned
UrlsToPoll(res, urls) == [ready |-> res.returned, urls |-> res.urls]

\* lines 684-685: the loop takes the next URL and calls poll_for_success
\* (lines 228-229 have run)
FlowPollCall ==
    /\ flowPc = "run"
    /\ UrlsToPoll(result, order_urls).ready
    /\ pollPc = "idle"
    /\ fi < Len(UrlsToPoll(result, order_urls).urls)
    /\ order_url' = NextOrder(UrlsToPoll(result, order_urls).urls, fi)
    /\ script' \in UNION {[1..n -> Replies] : n \in 1..MaxFlowScript}
    /\ pos' = 0
    /\ state' = ""
    /\ r' = NoResponse
    /\ pollPc' = "while"
    /\ pollLog' = <<>>
    /\ UNCHANGED <<flowPc, fi, polled>>
    /\ UNCHANGED <<batchVars, pageVars, netVars, searchVars>>

\* poll_for_success has returned: the turn of the loop is over
FlowPollDone ==
    /\ flowPc = "run"
    /\ pollPc = "returned"
    /\ polled' = Append(polled, order_url)
    /\ fi' = fi + 1
    /\ script' = <<>>
    /\ pos' = 0
    /\ state' = ""
    /\ r' = NoResponse
    /\ pollPc' = "idle"
    /\ pollLog' = <<>>
    /\ UNCHANGED <<flowPc, order_url>>
    /\ UNCHANGED <<batchVars, pageVars, netVars, searchVars>>

\* the list is exhausted: the cell ends
FlowEnd ==
    /\ flowPc = "run"
    /\ result.returned
    /\ pollPc = "idle"
    /\ fi = Len(result.urls)
    /\ flowPc' = "done"
    /\ UNCHANGED <<fi, order_url, polled>>
    /\ UNCHANGED <<batchVars, pollVars, pageVars, netVars, searchVars>>

-----------------------------------------------------------------------------
(* The session's transport: the retry policy the search functions mount
   (lines 110-113, 460-461, 804-805) and the requests sent through it *)

\* Retry(total=10, ...) of line 460 and Retry(total=5, ...) of line 804
BoundingBoxRetries == 10

PolygonRetries == 5

\* the Retry of the adapter of a new Session: nothing is retried
DefaultRetry == [total |-> 0, status_forcelist |-> {}]

\* line 460
BoundingBoxRetry == [total |-> BoundingBoxRetries, status_forcelist |-> {429}]

\* line 804
PolygonRetry == [total |-> PolygonRetries, status_forcelist |-> {429}]

\* a Retry built with POST among its allowed methods
AllowedMethodsWithPost == {"HEAD", "GET", "PUT", "DELETE", "OPTIONS", "TRACE", "POST"}

\* Retry is built without allowed_methods (lines 460, 804): a status is
\* retried for the idempotent methods only
AllowedMethods == {"HEAD", "GET", "PUT", "DELETE", "OPTIONS", "TRACE"}

\* Retry.is_retry: the response asks for a retry under this policy
IsRetry(retry, method, status) ==
    method \in AllowedMethods /\ status \in retry.status_forcelist

\* a policy that allows one retry more than its total
IsExhaustedLate(retry, retries) == retries > retry.total

\* Retry.increment: each retry takes one from total, below zero it is exhausted
IsExhausted(retry, retries) == retries >= retry.total

\* the requests of the notebook: the function that sends, the method, and the
\* search function it is sent within ("" for the cells themselves)
Senders ==
    { [by |-> "handle_pagination", method |-> "GET", within |-> "bounding_box_search"],
      [by |-> "polygon_search", method |-> "GET", within |-> "polygon_search"],
      [by |-> "polygon_search", method |-> "POST", within |-> "polygon_search"],
      [by |-> "place_order", method |-> "POST", within |-> ""],
      [by |-> "poll_for_success", method |-> "GET", within |-> ""] }

\* what the service answers to one transmission
TransportStatuses == {200, 429}

NoRequest ==
    [by |-> "", method |-> "", retry |-> DefaultRetry, retries |-> 0, got429 |-> 0,
     status |-> 0, error |-> ""]

\* a mount that leaves an adapter mounted earlier in place
MountIfNone(mounted, retry) == IF mounted = DefaultRetry THEN retry ELSE mounted

\* session.mount('https://', HTTPAdapter(max_retries=retries)) (lines 461, 805):
\* the adapter of the prefix is replaced
Mount(mounted, retry) == retry

\* lines 110-113: the session is new, nothing was mounted and nothing sent
NetIdle ==
    /\ max_retries = DefaultRetry
    /\ searching = ""
    /\ request = NoRequest
    /\ completed = NoRequest
    /\ sends = 0
    /\ ran = ""

\* lines 460-461: bounding_box_search starts by mounting its policy
EnterBoundingBoxSearch ==
    /\ searching = ""
    /\ request = NoRequest
    /\ sends < MaxSends
    /\ max_retries' = Mount(max_retries, BoundingBoxRetry)
    /\ searching' = "bounding_box_search"
    /\ ran' = "bounding_box_search"
    /\ UNCHANGED <<request, completed, sends>>
    /\ UNCHANGED <<batchVars, pollVars, pageVars, flowVars, searchVars>>

\* lines 804-805: polygon_search starts by mounting its policy
EnterPolygonSearch ==
    /\ searching = ""
    /\ request = NoRequest
    /\ sends < MaxSends
    /\ max_retries' = Mount(max_retries, PolygonRetry)
    /\ searching' = "polygon_search"
    /\ ran' = "polygon_search"
    /\ UNCHANGED <<request, completed, sends>>
    /\ UNCHANGED <<batchVars, pollVars, pageVars, flowVars, searchVars>>

\* the search function is over; what it mounted stays mounted
LeaveSearch ==
    /\ searching # ""
    /\ request = NoRequest
    /\ searching' = ""
    /\ UNCHANGED <<max_retries, request, completed, sends, ran>>
    /\ UNCHANGED <<batchVars, pollVars, pageVars, flowVars, searchVars>>

\* session.get / session.post (lines 186, 231, 410, 808, 817, 820): the request
\* goes to the adapter mounted at this moment
Send ==
    /\ request = NoRequest
    /\ sends < MaxSends
    /\ \E s \in Senders :
          /\ s.within = searching
          /\ request' = [by |-> s.by, method |-> s.method, retry |-> max_retries,
                         retries |-> 0, got429 |-> 0, status |-> 0, error |-> ""]
    /\ sends' = sends + 1
    /\ UNCHANGED <<max_retries, searching, completed, ran>>
    /\ UNCHANGED <<batchVars, pollVars, pageVars, flowVars, searchVars>>

\* one transmission and its answer: the response is handed back, or the
\* adapter retries, or its retries are exhausted and it raises RetryError
Transmit ==
    /\ request # NoRequest
    /\ \E status \in TransportStatuses :
          LET got == request.got429 + (IF status = 429 THEN 1 ELSE 0)
          IN  IF IsRetry(request.retry, request.method, status)
              THEN IF IsExhausted(request.retry, request.retries)
                   THEN /\ completed' = [request EXCEPT !.got429 = got,
                                                   !.error = "RetryError"]
                        /\ request' = NoRequest
                   ELSE /\ request' = [request EXCEPT !.got429 = got,
                                                      !.retries = @ + 1]
                        /\ completed' = completed
              ELSE /\ completed' = [request EXCEPT !.got429 = got, !.status = status]
                   /\ request' = NoRequest
    /\ UNCHANGED <<max_retries, searching, sends, ran>>
    /\ UNCHANGED <<batchVars, pollVars, pageVars, flowVars, searchVars>>

-----------------------------------------------------------------------------
(* handle_pagination as its callers see it: each call makes a generator with
   its own locals, and next() runs it up to its next yield (lines 408-428).
   The listings are finite chains and every GET is answered with its page. *)

\* a generator just created: nothing has run, `url` is the argument
NewGen == [url |-> BaseUrl, loaded |-> FALSE, idx |-> 0, pc |-> "open", requests |-> <<>>]

NoItem == [page |-> 0, idx |-> 0]

\* line 410 and line 416: the GET of the generator's url, the body kept by url
\* (the service answers each of these with a page; the answers that make
\* line 413 raise are those of PgFetch)
GenFetch(g) ==
    [g EXCEPT !.loaded = TRUE, !.idx = 1,
              !.requests = Append(@, [url |-> g.url,
                                      params |-> ParamsOf(Len(g.requests) + 1)])]

\* one call of next(): the generator runs to its next yield or to its end
RECURSIVE GenNext(_, _)
GenNext(ps, g) ==
    IF g.pc = "done" THEN [gen |-> g, has |-> FALSE, item |-> NoItem]
    ELSE IF ~g.loaded THEN GenNext(ps, GenFetch(g))
    ELSE IF g.idx <= Len(ps[g.url].items)
    THEN [gen |-> [g EXCEPT !.idx = @ + 1], has |-> TRUE, item |-> ps[g.url].items[g.idx]]
    ELSE IF HasNext(ps[g.url])
    THEN GenNext(ps, [g EXCEPT !.url = ps[g.url].next, !.loaded = FALSE])
    ELSE [gen |-> [g EXCEPT !.pc = "done"], has |-> FALSE, item |-> NoItem]

\* the generator consumed to its end: what it yields, and how it is left
RECURSIVE Drain(_, _, _)
Drain(ps, g, got) ==
    LET n == GenNext(ps, g)
    IN  IF n.has THEN Drain(ps, n.gen, Append(got, n.item))
        ELSE [gen |-> n.gen, items |-> got]

\* the finite listings: n pages of the given sizes chained by their next links
ChainListings ==
    UNION { {Listing(sizes, NoLink, n) : sizes \in [1..n -> 0..MaxItems]} :
            n \in 1..MaxPages }

-----------------------------------------------------------------------------
(* Generators of handle_pagination held side by side (lines 391-428) *)

\* generators followed at the same time
MaxGens == 2

\* one cursor kept for all the generators (a module-level url)
SharedCursor(gs, i) == gs[1]

\* the locals of the generator itself
OwnCursor(gs, i) == gs[i]

\* no generator exists yet
InitTwins ==
    /\ listing \in ChainListings
    /\ gens = <<>>
    /\ outs = <<>>

TwinsIdle ==
    /\ listing = <<>>
    /\ gens = <<>>
    /\ outs = <<>>

\* handle_pagination(session, url, params) is called once more
TwinCall ==
    /\ Len(gens) < MaxGens
    /\ gens' = Append(gens, NewGen)
    /\ outs' = Append(outs, <<>>)
    /\ UNCHANGED <<listing, bbVars, psVars>>
    /\ UNCHANGED <<batchVars, pollVars, pageVars, flowVars, netVars>>

\* the consumer asks generator i for its next item
TwinNext ==
    /\ \E i \in 1..Len(gens) :
          /\ gens[i].pc # "done"
          /\ LET n == GenNext(listing, OwnCursor(gens, i))
             IN  /\ gens' = [gens EXCEPT ![i] = n.gen]
                 /\ outs' = IF n.has THEN [outs EXCEPT ![i] = Append(@, n.item)]
                            ELSE outs
    /\ UNCHANGED <<listing, bbVars, psVars>>
    /\ UNCHANGED <<batchVars, pollVars, pageVars, flowVars, netVars>>

-----------------------------------------------------------------------------
(* bounding_box_search (lines 447-487) *)

\* most pages of the quad listing, and most quads on one page
MaxQuadPages == 2

MaxQuads == 2

\* the quads of page p: one for each flag, the flag telling whether its
\* `_links` has a `download` entry
RECURSIVE QuadItems(_, _, _)
QuadItems(p, flags, k) ==
    IF k = 0 THEN <<>>
    ELSE Append(QuadItems(p, flags, k - 1),
                [id |-> [page |-> p, idx |-> k], download |-> flags[k]])

RECURSIVE QuadListing(_, _)
QuadListing(flags, n) ==
    IF n = 0 THEN <<>>
    ELSE Append(QuadListing(flags, n - 1),
                [items |-> QuadItems(n, flags[n], Len(flags[n])),
                 next |-> IF n = Len(flags) THEN NoLink ELSE n + 1])

QuadListings ==
    UNION { {QuadListing(flags, n) :
                flags \in [1..n -> UNION {[1..k -> BOOLEAN] : k \in 0..MaxQuads}]} :
            n \in 1..MaxQuadPages }

\* the requests of a generator, marked with the listing they were made for
RECURSIVE Tagged(_, _)
Tagged(of, reqs) ==
    IF reqs = <<>> THEN <<>>
    ELSE Append(Tagged(of, SubSeq(reqs, 1, Len(reqs) - 1)),
                [of |-> of, url |-> reqs[Len(reqs)].url,
                 params |-> reqs[Len(reqs)].params])

\* the first item taken whatever follows it
TakeFirst(first, second) == IF first.has THEN "" ELSE "ValueError"

\* `mosaic, = ...` (line 471): unpacking into one name asks for a first item
\* and then for a second one, and fails unless there is a first and no second
UnpackOne(first, second) ==
    IF first.has /\ ~second.has THEN "" ELSE "ValueError"

\* every quad kept
AnyQuad(item) == TRUE

\* 'download' in item['_links'] (line 485)
HasDownload(item) == item.download

RECURSIVE IdsOf(_)
IdsOf(items) ==
    IF items = <<>> THEN <<>>
    ELSE Append(IdsOf(SubSeq(items, 1, Len(items) - 1)), items[Len(items)].id)

\* the function has been called
InitBbox ==
    /\ mosaicPages \in ChainListings
    /\ quadPages = <<>>
    /\ mosaic = NoItem
    /\ bbPc = "lookup"
    /\ bbRequests = <<>>
    /\ bbQuadIds = <<>>
    /\ bbError = ""

BboxIdle ==
    /\ mosaicPages = <<>>
    /\ quadPages = <<>>
    /\ mosaic = NoItem
    /\ bbPc = "idle"
    /\ bbRequests = <<>>
    /\ bbQuadIds = <<>>
    /\ bbError = ""


\* lines 464-472: the mosaic is looked up by name and unpacked
BbLookup ==
    /\ bbPc = "lookup"
    /\ LET first == GenNext(mosaicPages, NewGen)
           second == IF first.has THEN GenNext(mosaicPages, first.gen) ELSE first
       IN  /\ bbRequests' = Tagged("mosaics", second.gen.requests)
           /\ bbError' = UnpackOne(first, second)
           /\ IF UnpackOne(first, second) = ""
              THEN /\ mosaic' = first.item
                   /\ bbPc' = "quads"
              ELSE /\ mosaic' = mosaic
                   /\ bbPc' = "raised"
    /\ UNCHANGED <<mosaicPages, quadPages, bbQuadIds, twinVars, psVars>>
    /\ UNCHANGED <<batchVars, pollVars, pageVars, flowVars, netVars>>

\* lines 475-487: the quads of the mosaic are listed, those with a download
\* link are kept, their ids are returned
BbQuads ==
    /\ bbPc = "quads"
    /\ \E qp \in QuadListings :
          /\ quadPages' = qp
          /\ LET d == Drain(qp, NewGen, <<>>)
             IN  /\ bbQuadIds' = IdsOf(SelectSeq(d.items, HasDownload))
                 /\ bbRequests' = bbRequests \o Tagged(<<"quads", mosaic>>, d.gen.requests)
    /\ bbPc' = "returned"
    /\ UNCHANGED <<mosaicPages, mosaic, bbError, twinVars, psVars>>
    /\ UNCHANGED <<batchVars, pollVars, pageVars, flowVars, netVars>>

-----------------------------------------------------------------------------
(* polygon_search (lines 786-832) and the loop that consumes it (lines 841-845) *)

\* most mosaics the name lookup answers with
MaxMosaics == 2

\* f'{base_url}/mosaics' (line 808); the quad pages are numbered from BaseUrl
MosaicsUrl == -1

\* the `geometry` argument, and a request without a JSON body
Geometry == "polygon"

NoJson == ""

NoMosaic == 0

\* the ids of the mosaics in a lookup answer that lists n of them
RECURSIVE MosaicIds(_)
MosaicIds(n) == IF n = 0 THEN <<>> ELSE Append(MosaicIds(n - 1), 10 + n)

\* every page asked for with a POST
AlwaysPost(u) == "POST"

\* lines 814-820: POST while `url` is None, GET of the link afterwards
MethodFor(u) == IF u = NoLink THEN "POST" ELSE "GET"

\* the generator has been created by the for statement, nothing has run
InitPolygon ==
    /\ psPages \in ChainListings
    /\ psUrl = NoLink
    /\ mosaic_id = NoMosaic
    /\ psResponse = [items |-> <<>>, next |-> NoLink]
    /\ psIdx = 0
    /\ psPc = "lookup"
    /\ psYielded = <<>>
    /\ psRequests = <<>>
    /\ psError = NoError
    /\ psRunning = FALSE

PolygonIdle ==
    /\ psPages = <<>>
    /\ psUrl = NoLink
    /\ mosaic_id = NoMosaic
    /\ psResponse = [items |-> <<>>, next |-> NoLink]
    /\ psIdx = 0
    /\ psPc = "idle"
    /\ psYielded = <<>>
    /\ psRequests = <<>>
    /\ psError = NoError
    /\ psRunning = FALSE

SearchIdle == TwinsIdle /\ BboxIdle /\ PolygonIdle

\* line 844: a turn of the for loop asks the generator for its next item
PsNext ==
    /\ psPc \in {"lookup", "fetch", "yield"}
    /\ ~psRunning
    /\ psRunning' = TRUE
    /\ UNCHANGED <<psPages, psUrl, mosaic_id, psResponse, psIdx, psPc, psYielded,
                   psRequests, psError>>
    /\ UNCHANGED <<batchVars, pollVars, pageVars, flowVars, netVars, twinVars, bbVars>>

\* lines 808-812: the mosaic is looked up by name, its id taken from the
\* first entry of the answer
PsLookup ==
    /\ psPc = "lookup"
    /\ CanRun(psRunning)
    /\ \E status \in PageStatuses :
          \E n \in (IF status = 200 THEN 0..MaxMosaics ELSE {0}) :
              /\ psRequests' = Append(psRequests,
                                      [method |-> "GET", url |-> MosaicsUrl,
                                       params |-> QueryParams, json |-> NoJson,
                                       mosaic |-> NoMosaic, status |-> status,
                                       mosaics |-> MosaicIds(n)])
              /\ IF RaisesForStatus(status)
                 THEN \* raise_for_status raises HTTPError
                      /\ psPc' = "raised"
                      /\ psError' = [kind |-> "HTTPError", status |-> status]
                      /\ psRunning' = FALSE
                      /\ UNCHANGED mosaic_id
                 ELSE IF status # 200
                 THEN \* rv.json() finds no JSON body
                      /\ psPc' = "raised"
                      /\ psError' = [kind |-> "JSONDecodeError", status |-> 0]
                      /\ psRunning' = FALSE
                      /\ UNCHANGED mosaic_id
                 ELSE IF n = 0
                 THEN \* ['mosaics'][0] raises IndexError
                      /\ psPc' = "raised"
                      /\ psError' = [kind |-> "IndexError", status |-> 0]
                      /\ psRunning' = FALSE
                      /\ UNCHANGED mosaic_id
                 ELSE /\ mosaic_id' = MosaicIds(n)[1]
                      /\ psPc' = "fetch"
                      /\ UNCHANGED <<psError, psRunning>>
    /\ UNCHANGED <<psPages, psUrl, psResponse, psIdx, psYielded>>
    /\ UNCHANGED <<batchVars, pollVars, pageVars, flowVars, netVars, twinVars, bbVars>>

\* lines 814-822: the search is posted with the geometry, or the link of the
\* previous page is fetched; raise_for_status, the body
PsFetch ==
    /\ psPc = "fetch"
    /\ CanRun(psRunning)
    /\ LET target == IF psUrl = NoLink THEN BaseUrl ELSE psUrl
       IN  /\ psUrl' = target
           /\ \E status \in PageStatuses :
                 /\ psRequests' = Append(psRequests,
                         [method |-> MethodFor(psUrl), url |-> target,
                          params |-> NoParams,
                          json |-> IF psUrl = NoLink THEN Geometry ELSE NoJson,
                          mosaic |-> IF psUrl = NoLink THEN mosaic_id ELSE NoMosaic,
                          status |-> status, mosaics |-> <<>>])
                 /\ IF RaisesForStatus(status)
                    THEN /\ psPc' = "raised"
                         /\ psError' = [kind |-> "HTTPError", status |-> status]
                         /\ psRunning' = FALSE
                         /\ UNCHANGED <<psResponse, psIdx>>
                    ELSE IF status # 200
                    THEN /\ psPc' = "raised"
                         /\ psError' = [kind |-> "JSONDecodeError", status |-> 0]
                         /\ psRunning' = FALSE
                         /\ UNCHANGED <<psResponse, psIdx>>
                    ELSE /\ psResponse' = psPages[target]
                         /\ psIdx' = 1
                         /\ psPc' = "yield"
                         /\ UNCHANGED <<psError, psRunning>>
    /\ UNCHANGED <<psPages, mosaic_id, psYielded>>
    /\ UNCHANGED <<batchVars, pollVars, pageVars, flowVars, netVars, twinVars, bbVars>>

\* lines 825-826: the next item of the page is handed to the loop
PsYield ==
    /\ psPc = "yield"
    /\ CanRun(psRunning)
    /\ psIdx <= Len(psResponse.items)
    /\ psYielded' = Append(psYielded, psResponse.items[psIdx])
    /\ psIdx' = psIdx + 1
    /\ psRunning' = FALSE
    /\ UNCHANGED <<psPages, psUrl, mosaic_id, psResponse, psPc, psRequests, psError>>
    /\ UNCHANGED <<batchVars, pollVars, pageVars, flowVars, netVars, twinVars, bbVars>>

\* lines 829-832: the page is exhausted; take the link or leave the loop
PsLink ==
    /\ psPc = "yield"
    /\ CanRun(psRunning)
    /\ psIdx > Len(psResponse.items)
    /\ IF HasNext(psResponse)
       THEN /\ psUrl' = psResponse.next
            /\ psPc' = "fetch"
            /\ psRunning' = psRunning
       ELSE /\ psUrl' = psUrl
            /\ psPc' = "done"
            /\ psRunning' = FALSE
    /\ UNCHANGED <<psPages, mosaic_id, psResponse, psIdx, psYielded, psRequests, psError>>
    /\ UNCHANGED <<batchVars, pollVars, pageVars, flowVars, netVars, twinVars, bbVars>>

-----------------------------------------------------------------------------
(* The specifications: one per function, the other functions being idle *)

InitBatchCall == InitBatch /\ PollIdle /\ PageIdle /\ FlowIdle /\ NetIdle
    /\ SearchIdle

NextBatch == BatchCall \/ PlaceOrder \/ BatchReturn

SpecBatch == InitBatchCall /\ [][NextBatch]_vars

InitPollCall == BatchIdle /\ InitPoll /\ PageIdle /\ FlowIdle /\ NetIdle
    /\ SearchIdle

NextPoll == PollGet \/ PollSleep \/ PollReturn

\* the loop is ordinary sequential code: a step that can be taken is taken
SpecPoll == InitPollCall /\ [][NextPoll]_vars /\ WF_vars(NextPoll)

InitPageCall == BatchIdle /\ PollIdle /\ InitPage /\ FlowIdle /\ NetIdle
    /\ SearchIdle

NextPage == ConsumerNext \/ ConsumerStop \/ PgFetch \/ PgYield \/ PgLink

SpecPage == InitPageCall /\ [][NextPage]_vars

\* the cell of lines 681-685: the batches are submitted, then the orders are
\* polled one after the other. The interpreter takes every step that can be
\* taken; fairness is stated for the steps that follow the submission.
InitFlowCell == InitFlow /\ PollIdle /\ PageIdle /\ NetIdle
    /\ SearchIdle

NextFlow ==
    \/ BatchCall \/ PlaceOrder \/ BatchReturn
    \/ FlowPollCall \/ PollGet \/ PollSleep \/ PollReturn \/ FlowPollDone
    \/ FlowEnd

NextFlowLoop ==
    FlowPollCall \/ PollGet \/ PollSleep \/ PollReturn \/ FlowPollDone \/ FlowEnd

SpecFlow == InitFlowCell /\ [][NextFlow]_vars /\ WF_vars(NextFlowLoop)

\* generators of handle_pagination created and advanced in any order
InitTwinsCall == BatchIdle /\ PollIdle /\ PageIdle /\ FlowIdle /\ NetIdle
    /\ InitTwins /\ BboxIdle /\ PolygonIdle

NextTwins == TwinCall \/ TwinNext

SpecTwins == InitTwinsCall /\ [][NextTwins]_vars

\* one call of bounding_box_search
InitBboxCall == BatchIdle /\ PollIdle /\ PageIdle /\ FlowIdle /\ NetIdle
    /\ TwinsIdle /\ InitBbox /\ PolygonIdle

NextBbox == BbLookup \/ BbQuads

SpecBbox == InitBboxCall /\ [][NextBbox]_vars

\* one run of polygon_search under the loop of lines 844-845
InitPolygonCall == BatchIdle /\ PollIdle /\ PageIdle /\ FlowIdle /\ NetIdle
    /\ TwinsIdle /\ BboxIdle /\ InitPolygon

NextPolygon == PsNext \/ PsLookup \/ PsFetch \/ PsYield \/ PsLink

SpecPolygon == InitPolygonCall /\ [][NextPolygon]_vars

\* the session from its construction on: the search functions mount their
\* policies and the functions of the notebook send their requests
InitSession == BatchIdle /\ PollIdle /\ PageIdle /\ FlowIdle /\ NetIdle
    /\ SearchIdle

NextSession ==
    EnterBoundingBoxSearch \/ EnterPolygonSearch \/ LeaveSearch \/ Send \/ Transmit

SpecSession == InitSession /\ [][NextSession]_vars

-----------------------------------------------------------------------------
(* Claims about batch_list_and_place_orders (SpecBatch) *)

\* the identifier list carried by the i-th order request submitted
PostedIds(i) == QuadIdsOf(posts[i], 1)

\* the identifier lists of the first i submitted requests, concatenated
RECURSIVE ConcatPosted(_)
ConcatPosted(i) == IF i = 0 THEN <<>> ELSE ConcatPosted(i - 1) \o PostedIds(i)

IsPrefix(s, t) == Len(s) <= Len(t) /\ SubSeq(t, 1, Len(s)) = s

\* C1: for a non-empty list of N identifiers a call that returns has submitted
\* exactly ceil(N/100) requests, whose identifier lists concatenated in
\* submission order are the input list; every request submitted, at any time,
\* carries between 1 and 100 identifiers, and what has been submitted so far is
\* a prefix of the input list.
C1_BatchesPartitionIds ==
    /\ \A i \in 1..Len(posts) : Len(PostedIds(i)) >= 1 /\ Len(PostedIds(i)) <= 100
    /\ IsPrefix(ConcatPosted(Len(posts)), ids0)
    /\ (batchPc = "returned" /\ ids0 # <<>>) =>
          /\ Len(posts) * 100 >= Len(ids0)
          /\ (Len(posts) - 1) * 100 < Len(ids0)
          /\ ConcatPosted(Len(posts)) = ids0

\* three requests were submitted, the last one for a partial batch
C1_Witness ==
    /\ batchPc = "returned"
    /\ Len(posts) = 3
    /\ Len(PostedIds(3)) < 100
    /\ Len(PostedIds(2)) = 100

\* C2: the produced requests share no dict or list with one another, with the
\* caller's template or with the caller's identifier list, so a change made
\* through one of them is seen through none of the others.
C2_NoSharedStructure ==
    \A i \in 1..Len(all_order_params) :
        /\ Reach(heap, all_order_params[i]) \cap Reach(heap, order_params) = {}
        /\ quad_ids \notin Reach(heap, all_order_params[i])
        /\ \A j \in 1..Len(all_order_params) :
              j # i => Reach(heap, all_order_params[i])
                          \cap Reach(heap, all_order_params[j]) = {}

\* several requests were produced from a template that holds the caller's list
C2_Witness ==
    /\ batchPc = "returned"
    /\ Len(all_order_params) >= 2
    /\ quad_ids \in Reach(heap, order_params)

\* a packet with its products[0].quad_ids emptied
WithoutQuadIds(packet) ==
    [packet EXCEPT ![GetRef(packet, Product(packet, 1), "quad_ids")] = ListOfAtoms(<<>>)]

\* C3: every submitted request equals the template in every field other than
\* products[0].quad_ids, and the template, with the identifier list it held, is
\* at every moment what it was before the call.
C3_TemplatePreserved ==
    /\ \A i \in 1..Len(posts) : WithoutQuadIds(posts[i]) = WithoutQuadIds(template0)
    /\ Snapshot(heap, order_params) = template0

\* two requests were submitted whose identifiers are not those of the template
C3_Witness ==
    /\ batchPc = "returned"
    /\ Len(posts) >= 2
    /\ PostedIds(1) # QuadIdsOf(template0, 1)
    /\ PostedIds(2) # QuadIdsOf(template0, 1)

\* C4: for an empty identifier list the call issues no POST, does not raise,
\* and returns the empty list of order URLs.
C4_EmptyListNoOrders ==
    ids0 = <<>> =>
        /\ posts = <<>>
        /\ batchPc # "raised"
        /\ order_urls = <<>>
        /\ all_order_params = <<>>

\* the call with an empty list has returned
C4_Witness == ids0 = <<>> /\ batchPc = "returned"

-----------------------------------------------------------------------------
(* Claims about poll_for_success (SpecPoll) *)

\* the terminal states of an order
TerminalStates == {"success", "failed", "partial"}

IsTerminal(reply) == reply.hasState /\ reply.state \in TerminalStates

\* position of the first terminal reply of a script, 0 when it has none
FirstTerminal(s) ==
    IF \E i \in 1..Len(s) : IsTerminal(s[i])
    THEN CHOOSE i \in 1..Len(s) :
            IsTerminal(s[i]) /\ \A j \in 1..(i - 1) : ~IsTerminal(s[j])
    ELSE 0

\* number of GETs recorded
Gets(log) == Cardinality({i \in 1..Len(log) : log[i] = "get"})

C6_GetsAndSleepsAlternate ==
    /\ \A i \in 1..Len(pollLog) : pollLog[i] = IF i % 2 = 1 THEN "get" ELSE "sleep"
    /\ pollPc = "returned" =>
          /\ FirstTerminal(script) > 0
          /\ Len(pollLog) = 2 * FirstTerminal(script) - 1
          /\ Gets(pollLog) = FirstTerminal(script)
          /\ state = script[FirstTerminal(script)].state

\* it returned on `failed`, at the end of the longest script, after sleeps
C6_Witness ==
    /\ pollPc = "returned"
    /\ state = "failed"
    /\ FirstTerminal(script) = MaxScript
    /\ Len(pollLog) = 2 * MaxScript - 1

\* every GET up to the first terminal reply has a body with a state
ReachesTerminal(s) ==
    /\ FirstTerminal(s) > 0
    /\ \A i \in 1..FirstTerminal(s) : s[i].hasState

\* C7: if the service reports a terminal state at some GET and every GET up to
\* it succeeds, poll_for_success eventually returns.
C7_EventuallyReturns == ReachesTerminal(script) ~> (pollPc = "returned")

\* a poll that had to wait for its terminal state has returned
C7_Witness ==
    /\ ReachesTerminal(script)
    /\ FirstTerminal(script) >= 2
    /\ pollPc = "returned"

\* C8: polling is limited to a number of loops: the call ends, by returning or
\* by failing, even when the order never reaches a terminal state.
C8_PollingIsBounded == <>(pollPc \in {"returned", "raised"})

-----------------------------------------------------------------------------
(* Claims about handle_pagination (SpecPage) *)

\* the items of the first n pages, in page order
RECURSIVE ItemsUpTo(_)
ItemsUpTo(n) == IF n = 0 THEN <<>> ELSE ItemsUpTo(n - 1) \o pages[n].items

\* page i links to page i+1 and the last page has no link
IsChain(ps) ==
    /\ \A i \in 1..(Len(ps) - 1) : ps[i].next = i + 1
    /\ ps[Len(ps)].next = NoLink

\* C9: against n >= 1 pages chained by their next links, a generator consumed to
\* the end has yielded the items of the pages in page order, each once, and has
\* issued n GETs, one per page, the last for the page without a next link.
C9_AllPagesOnce ==
    (pgPc = "done" /\ IsChain(pages)) =>
        /\ yielded = ItemsUpTo(Len(pages))
        /\ Len(pgRequests) = Len(pages)
        /\ \A i \in 1..Len(pgRequests) : pgRequests[i].url = i
        /\ pages[pgRequests[Len(pgRequests)].url].next = NoLink

\* three pages of 2, 2 and 1 items have been consumed to the end
C9_Witness ==
    /\ pgPc = "done"
    /\ Len(pages) = 3
    /\ Len(pages[1].items) = 2 /\ Len(pages[2].items) = 2 /\ Len(pages[3].items) = 1
    /\ Len(yielded) = 5

\* C10: every request after the first asks for the next link of the page before
\* it and carries none of the original query parameters; the first request
\* carries them.
C10_ParamsOnFirstRequestOnly ==
    \A i \in 1..Len(pgRequests) :
        IF i = 1
        THEN pgRequests[i].url = BaseUrl /\ pgRequests[i].params = QueryParams
        ELSE /\ pgRequests[i].url = pages[pgRequests[i - 1].url].next
             /\ pgRequests[i].params = NoParams

\* the items of the pages the first k requests asked for, in request order
RECURSIVE ItemsOfRequests(_)
ItemsOfRequests(k) ==
    IF k = 0 THEN <<>>
    ELSE ItemsOfRequests(k - 1) \o pages[pgRequests[k].url].items

\* C11: whatever the service answers, no two requests of a paginator follow the
\* same page cursor: a next link that was followed once is never requested again.
C11_CursorNeverReused ==
    \A i, j \in 2..Len(pgRequests) : i # j => pgRequests[i].url # pgRequests[j].url

\* C12 as stated: a page GET answered with any status outside 2xx makes
\* handle_pagination raise an HTTP error carrying that status, with no item of
\* that page yielded, no further request, and the earlier items delivered.
C12_NonSuccessRaisesHttpError ==
    \A k \in 1..Len(pgRequests) :
        (pgRequests[k].status < 200 \/ pgRequests[k].status > 299) =>
            /\ k = Len(pgRequests)
            /\ pgPc = "raised"
            /\ pgError = [kind |-> "HTTPError", status |-> pgRequests[k].status]
            /\ yielded = ItemsOfRequests(k - 1)

\* C12, amended: a page GET answered with a 4xx or 5xx status makes
\* handle_pagination raise an HTTP error carrying that status; no item of the
\* failing page is yielded, no further request is issued, and the items of the
\* earlier pages have all been delivered.
C12_ErrorStatusRaisesHttpError ==
    \A k \in 1..Len(pgRequests) :
        (pgRequests[k].status >= 400 /\ pgRequests[k].status <= 599) =>
            /\ k = Len(pgRequests)
            /\ pgPc = "raised"
            /\ pgError = [kind |-> "HTTPError", status |-> pgRequests[k].status]
            /\ yielded = ItemsOfRequests(k - 1)

\* the GET for the second page was answered 404 after the two items of the
\* first page were delivered
C12_Witness ==
    /\ Len(pgRequests) = 2
    /\ pgRequests[2].status = 404
    /\ Len(yielded) = 2
    /\ pgPc = "raised"

\* C13: handle_pagination is lazy and forward-only: nothing is requested before
\* the first item is asked for, the GET for a page is issued only once the
\* consumer has been handed every item of the pages before it and asks for one
\* more, and a consumer that stops early causes no further request.
C13_LazyForwardOnly ==
    /\ Len(yielded) <= demands
    /\ \A k \in 1..Len(pgRequests) :
          /\ IsPrefix(ItemsOfRequests(k - 1), yielded)
          /\ demands >= Len(ItemsOfRequests(k - 1)) + 1
    /\ pgPc = "closed" => Len(yielded) = demands

\* the consumer took one item of a two-item first page and stopped: the second
\* page was never requested
C13_Witness ==
    /\ pgPc = "closed"
    /\ Len(pages) >= 2
    /\ pages[1].next = 2
    /\ Len(pages[1].items) = 2
    /\ Len(yielded) = 1
    /\ Len(pgRequests) = 1

-----------------------------------------------------------------------------
(* Claims about place_order and the submission loop (SpecBatch) *)

\* C14: for every successful order-creation response carrying an id X,
\* place_order has issued exactly one POST of the request body and returned
\* ORDERS_API_URL followed by '/' and X.
C14_OnePostAndUrlOfId ==
    /\ Len(posts) = Len(replies)
    /\ \A i \in 1..Len(replies) :
          (replies[i].status = 202 /\ replies[i].hasId) =>
              /\ Len(order_urls) >= i
              /\ order_urls[i] =
                     "https://api.planet.com/compute/ops/orders/v2/" \o replies[i].id

\* two orders were accepted with different ids
C14_Witness ==
    /\ Len(replies) = 2
    /\ replies[1] = [status |-> 202, hasId |-> TRUE, id |-> "abc123"]
    /\ replies[2] = [status |-> 202, hasId |-> TRUE, id |-> "def456"]
    /\ Len(order_urls) = 2

\* C15: when the order POST is answered with a status that is not a success,
\* place_order fails with an HTTP error and returns no order URL, whatever the
\* body contains.
C15_NonSuccessFailsWithHttpError ==
    \A i \in 1..Len(replies) :
        (replies[i].status < 200 \/ replies[i].status > 299) =>
            /\ i = Len(replies)
            /\ batchPc = "raised"
            /\ batchError = "HTTPError"
            /\ Len(order_urls) = i - 1

\* C16: when the response body has no id field, place_order fails with the
\* error of the field access and returns no order URL.
C16_MissingIdFails ==
    \A i \in 1..Len(replies) :
        ~replies[i].hasId =>
            /\ batchPc = "raised"
            /\ batchError = "KeyError"
            /\ Len(order_urls) < i

\* the first POST was accepted with a body that has no id
C16_Witness ==
    /\ Len(replies) = 1
    /\ replies[1] = [status |-> 202, hasId |-> FALSE, id |-> ""]
    /\ batchPc = "raised"

\* C18: when the submission of batch k fails, the error leaves
\* batch_list_and_place_orders: no later batch is submitted, and the orders
\* created for batches 1..k-1 stay created while their URLs never reach the
\* caller.
C18_FailureStopsAndLosesUrls ==
    \A k \in 1..Len(replies) :
        ~replies[k].hasId =>
            /\ k = Len(replies) /\ k = Len(posts)
            /\ k <= Len(all_order_params)
            /\ \A i \in 1..(k - 1) : replies[i].hasId
            /\ Len(order_urls) = k - 1
            /\ result = [returned |-> FALSE, urls |-> <<>>]

\* of three batches the first two were submitted and the third failed
C18_Witness ==
    /\ Len(all_order_params) = 3
    /\ Len(replies) = 3
    /\ replies[1].hasId /\ replies[2].hasId /\ ~replies[3].hasId
    /\ Len(order_urls) = 2
    /\ batchPc = "raised"

-----------------------------------------------------------------------------
(* Claims about the cell that submits and polls (SpecFlow) *)

\* the polls made so far went through the returned URLs in list order, one at
\* a time, and each returned on a terminal state
PolledInOrder ==
    /\ Len(polled) = fi
    /\ IsPrefix(polled, result.urls)
    /\ pollPc # "idle" =>
          /\ result.returned
          /\ fi < Len(result.urls)
          /\ order_url = result.urls[fi + 1]
    /\ pollPc = "returned" => IsTerminal(r.body)
    /\ flowPc = "done" => polled = result.urls

\* the cell is over, or it cannot get there: a submission or a poll raised, or
\* the order being polled never reports a terminal state
CellOverOrBlocked ==
    \/ flowPc = "done"
    \/ batchPc = "raised"
    \/ pollPc = "raised"
    \/ (pollPc \notin {"idle", "returned"} /\ ~ReachesTerminal(script))

\* C17: every URL returned by batch_list_and_place_orders is polled to a
\* terminal state, in list order and one at a time: the status of an order is
\* not asked for before the poll of the order before it has returned on a
\* terminal state; and when every order becomes terminal the cell ends, each
\* order polled exactly once.
C17_PolledInOrderToTheEnd ==
    []PolledInOrder /\ (result.returned ~> CellOverOrBlocked)

\* two orders with different URLs have both been polled and the cell is over
C17_Witness ==
    /\ flowPc = "done"
    /\ Len(result.urls) = 2
    /\ result.urls[1] # result.urls[2]
    /\ polled = result.urls

-----------------------------------------------------------------------------
(* Claims about the transport's retry policy (SpecSession) *)

-----------------------------------------------------------------------------
(* Further claims about the functions taken one by one *)

\* the i-th run of at most 100 consecutive identifiers of the input list
Chunk(ids, i) == SubSeq(ids, 100 * (i - 1) + 1, Min(100 * i, Len(ids)))

\* C21: batch_list_and_place_orders returns exactly one order URL per batch, in
\* batch order: the i-th URL is built from the id answered to the POST that
\* carried the i-th run of 100 consecutive identifiers of the input list.
C21_UrlPerBatchInOrder ==
    batchPc = "returned" =>
        /\ Len(result.urls) * 100 >= Len(ids0)
        /\ (Len(result.urls) - 1) * 100 < Len(ids0) \/ ids0 = <<>>
        /\ Len(result.urls) = Len(posts)
        /\ \A i \in 1..Len(result.urls) :
              /\ PostedIds(i) = Chunk(ids0, i)
              /\ result.urls[i] =
                     "https://api.planet.com/compute/ops/orders/v2/" \o replies[i].id

\* three batches were answered with ids that are not all the same
C21_Witness ==
    /\ batchPc = "returned"
    /\ Len(result.urls) = 3
    /\ replies[1].id = "abc123"
    /\ replies[2].id = "def456"
    /\ replies[3].id = "def456"

\* C23: when a status response has no `state` field, poll_for_success fails at
\* once with the error of the field access: that GET is the last event, no
\* sleep and no GET follow it, and nothing is returned.
C23_MissingStateFails ==
    (r.at > 0 /\ ~r.body.hasState) =>
        /\ pollPc = "raised"
        /\ pollLog[Len(pollLog)] = "get"
        /\ Gets(pollLog) = r.at
        /\ \A i \in 1..(r.at - 1) : script[i].hasState

\* the second status response had no state
C23_Witness ==
    /\ pollPc = "raised"
    /\ r.at = 2
    /\ script[1] = [hasState |-> TRUE, state |-> "running"]
    /\ ~script[2].hasState

\* C28: a page without items that carries a next link does not end the
\* pagination: nothing is yielded for it, its link is requested next, and the
\* items of the later pages are delivered.
C28_EmptyPageIsFollowed ==
    /\ \A k \in 1..Len(pgRequests) :
          (/\ pgRequests[k].status = 200
           /\ pages[pgRequests[k].url].items = <<>>
           /\ pages[pgRequests[k].url].next # NoLink) =>
              IF k < Len(pgRequests)
              THEN pgRequests[k + 1].url = pages[pgRequests[k].url].next
              ELSE /\ pgPc \in {"yield", "fetch"}
                   /\ running
                   /\ pgPc = "fetch" => url = pages[pgRequests[k].url].next
    /\ pgPc = "done" => yielded = ItemsOfRequests(Len(pgRequests))

\* the first page was empty and linked to a second page, whose two items were
\* delivered
C28_Witness ==
    /\ pgPc = "done"
    /\ pages[1].items = <<>>
    /\ pages[1].next = 2
    /\ Len(pages[2].items) = 2
    /\ yielded = pages[2].items

-----------------------------------------------------------------------------
(* Further claims about the cell that submits and polls (SpecFlow) *)

\* C25: all the order POSTs of one call of batch_list_and_place_orders are
\* issued before the first status GET of any of its orders: while an order is
\* polled, and ever after, every batch of the call has been submitted.
C25_AllPostsBeforeFirstGet ==
    (pollPc # "idle" \/ pollLog # <<>> \/ polled # <<>>) =>
        /\ batchPc = "returned"
        /\ Len(posts) * 100 >= Len(ids0)
        /\ ConcatPosted(Len(posts)) = ids0
        /\ Len(replies) = Len(posts)
        /\ \A i \in 1..Len(replies) : replies[i].hasId

\* the first of two orders is being polled, its first status GET answered,
\* and both orders have been submitted
C25_Witness ==
    /\ Len(posts) = 2
    /\ fi = 0
    /\ pollLog = <<"get">>
    /\ polled = <<>>

-----------------------------------------------------------------------------
(* Further claims about the transport's retry policy (SpecSession) *)

\* C29: the 429 retry policy is state of the one shared session: a request sent
\* before any search function has run has none, every run of bounding_box_search
\* or polygon_search replaces it for all later requests of every component, and
\* after polygon_search the order and poll requests go out under its policy
\* (5 retries), whatever had been mounted before.
C29_PolicyOfLastSearch ==
    /\ ran = "" => max_retries = [total |-> 0, status_forcelist |-> {}]
    /\ ran = "bounding_box_search" =>
          max_retries = [total |-> 10, status_forcelist |-> {429}]
    /\ ran = "polygon_search" =>
          max_retries = [total |-> 5, status_forcelist |-> {429}]
    /\ request # NoRequest => request.retry = max_retries

\* an order POST goes out under the policy of polygon_search after a request
\* that had gone out under the policy of bounding_box_search
C29_Witness ==
    /\ completed.retry.total = 10
    /\ ran = "polygon_search"
    /\ request.by = "place_order"
    /\ request.retry.total = 5

-----------------------------------------------------------------------------
(* Generators of handle_pagination side by side *)

RECURSIVE ChainItems(_, _)
ChainItems(ps, n) == IF n = 0 THEN <<>> ELSE ChainItems(ps, n - 1) \o ps[n].items

\* the requests start at the base URL and follow the links of the listing,
\* each with the parameters of the call
OwnWalk(ps, reqs) ==
    \A k \in 1..Len(reqs) :
        /\ reqs[k].params = QueryParams
        /\ reqs[k].url = IF k = 1 THEN BaseUrl ELSE ps[reqs[k - 1].url].next

TwinsIndependent ==
    \A i \in 1..Len(gens) :
        /\ OwnWalk(listing, gens[i].requests)
        /\ IsPrefix(outs[i], ChainItems(listing, Len(listing)))
        /\ gens[i].pc = "done" => outs[i] = ChainItems(listing, Len(listing))

OthersUntouched ==
    \A i \in 1..Len(gens) :
        gens'[i] # gens[i] =>
            \A j \in (1..Len(gens)) \ {i} : gens'[j] = gens[j] /\ outs'[j] = outs[j]

\* C24: every call of handle_pagination walks the listing from the base URL
\* with the parameters of its call, whatever other calls have done: of two
\* generators advanced in any interleaving each yields the items of all pages
\* in order, and advancing one changes neither the position nor the output of
\* the other.
C24_GeneratorsIndependent == []TwinsIndependent /\ [][OthersUntouched]_vars

\* one generator is exhausted while the other stands in the middle of the
\* listing, on another page
C24_Witness ==
    /\ Len(gens) = 2
    /\ gens[1].pc = "done"
    /\ gens[2].pc = "open"
    /\ outs[2] # <<>>
    /\ Len(outs[2]) < Len(outs[1])
    /\ gens[2].url # gens[1].url

-----------------------------------------------------------------------------
(* bounding_box_search *)

MosaicCount == Len(ChainItems(mosaicPages, Len(mosaicPages)))

RequestsOf(kind) == SelectSeq(bbRequests, LAMBDA q : (q.of = "mosaics") = (kind = "mosaics"))

\* C26: bounding_box_search goes on to the quad listing only when the mosaic
\* lookup, read over all of its pages, yields exactly one mosaic; with none,
\* or with two or more, it fails with the unpacking error and has made no
\* quad request.
C26_OneMosaicOrFailure ==
    /\ bbPc \in {"quads", "returned"} =>
          /\ MosaicCount = 1
          /\ mosaic = ChainItems(mosaicPages, Len(mosaicPages))[1]
          /\ Len(RequestsOf("mosaics")) = Len(mosaicPages)
          /\ bbError = ""
    /\ bbPc = "raised" =>
          /\ MosaicCount # 1
          /\ bbError = "ValueError"
          /\ RequestsOf("quads") = <<>>
          /\ bbQuadIds = <<>>
    /\ bbPc = "returned" => RequestsOf("quads") # <<>>

\* two mosaics of the name, on different pages: the call has failed
C26_Witness ==
    /\ bbPc = "raised"
    /\ MosaicCount = 2
    /\ Len(mosaicPages[1].items) = 1

RECURSIVE DownloadIds(_, _, _)
DownloadIds(ps, p, k) ==
    IF p = 0 THEN <<>>
    ELSE IF k = 0
    THEN IF p = 1 THEN <<>> ELSE DownloadIds(ps, p - 1, Len(ps[p - 1].items))
    ELSE DownloadIds(ps, p, k - 1) \o
            (IF ps[p].items[k].download THEN <<ps[p].items[k].id>> ELSE <<>>)

\* C27: bounding_box_search returns exactly the ids of the quads that have a
\* download link, over all pages of the quad listing in page order; every
\* page of the listing of the mosaic found has been requested once, in order.
C27_IdsOfDownloadableQuads ==
    bbPc = "returned" =>
        /\ bbQuadIds = DownloadIds(quadPages, Len(quadPages),
                                   Len(quadPages[Len(quadPages)].items))
        /\ Len(RequestsOf("quads")) = Len(quadPages)
        /\ \A k \in 1..Len(quadPages) :
              /\ RequestsOf("quads")[k].url = k
              /\ RequestsOf("quads")[k].of = <<"quads", mosaic>>

\* quads with a download link on both pages, and one without
C27_Witness ==
    /\ bbPc = "returned"
    /\ Len(quadPages) = 2
    /\ Len(bbQuadIds) = 2
    /\ bbQuadIds[1].page = 1
    /\ bbQuadIds[2].page = 2
    /\ \E k \in 1..Len(quadPages[1].items) : ~quadPages[1].items[k].download

-----------------------------------------------------------------------------
(* polygon_search *)

PostsOfRun == {k \in 1..Len(psRequests) : psRequests[k].method = "POST"}

LookupSucceeded ==
    /\ psRequests[1].status = 200
    /\ psRequests[1].mosaics # <<>>

\* C22: a run of polygon_search posts once: the first request is the GET of
\* the mosaic lookup, the second one, made only when the lookup succeeded, is
\* the POST of the quad search with the geometry, and every later request is
\* a GET of the `_next` link of the response before it; the run is over when
\* a response without `_next` has been yielded.
C22_OnePostThenLinks ==
    /\ Cardinality(PostsOfRun) <= 1
    /\ Len(psRequests) >= 1 =>
          /\ psRequests[1].method = "GET"
          /\ psRequests[1].url = MosaicsUrl
          /\ psRequests[1].params = QueryParams
    /\ Len(psRequests) >= 2 =>
          /\ LookupSucceeded
          /\ PostsOfRun = {2}
          /\ psRequests[2].url = BaseUrl
          /\ psRequests[2].mosaic = psRequests[1].mosaics[1]
          /\ psRequests[2].json = Geometry
    /\ \A k \in 3..Len(psRequests) :
          /\ psRequests[k].method = "GET"
          /\ psRequests[k].json = NoJson
          /\ psRequests[k].params = NoParams
          /\ psRequests[k - 1].status = 200
          /\ psPages[psRequests[k - 1].url].next # NoLink
          /\ psRequests[k].url = psPages[psRequests[k - 1].url].next
    /\ psPc = "done" =>
          /\ PostsOfRun = {2}
          /\ psRequests[Len(psRequests)].status = 200
          /\ psPages[psRequests[Len(psRequests)].url].next = NoLink
    /\ (/\ Len(psRequests) >= 2
        /\ psRequests[Len(psRequests)].status = 200
        /\ psPages[psRequests[Len(psRequests)].url].next = NoLink)
          => psPc \in {"yield", "done"}

\* a run over three pages is over: the lookup, the POST and two GETs
C22_Witness ==
    /\ psPc = "done"
    /\ Len(psRequests) = 4
    /\ psYielded # <<>>

=============================================================================
